---- MODULE Spec2Model ----
(***************************************************************************)
(* Model of the context ingestion engine (cli/lib/context_load.go,         *)
(* MustLoadContext) and of the project path enumerator (package fs,        *)
(* GetPaths).                                                              *)
(***************************************************************************)
EXTENDS Integers, Sequences, FiniteSets, Bags, TLC

(***************************************************************************)
(* Bounds of the model.                                                    *)
(***************************************************************************)
\* the ceiling shared.MaxContextTokens, scaled down
MaxContextTokens == 2
\* the most units of work (note, piped data, paths, URLs) one call dispatches
MaxUnits == 2
\* the largest ContextTokens the persisted PlanState starts with
MaxInitialTokens == 1

(***************************************************************************)
(* MustLoadContext: inputs                                                 *)
(***************************************************************************)
maxTokens == MaxContextTokens

\* resource strings, character by character: the paths "." and "s/..", and the
\* URL "http://u"
ResourceUniverse ==
    { <<".">>,
      <<"s", "/", ".", ".">>,
      <<"h", "t", "t", "p", ":", "/", "/", "u">> }

\* url.IsValidURL: the URL-shape predicate
IsValidURL(resource) ==
    /\ Len(resource) > 7
    /\ SubSeq(resource, 1, 7) = <<"h", "t", "t", "p", ":", "/", "/">>

\* results shared.GetNumTokens can give for a body
TokenCounts == {0, 1, MaxContextTokens + 1}

\* the files ParseInputPaths can expand the inputs to, in order
AllFiles == <<"x.txt", "y.txt", "z.txt", "w.txt">>

RECURSIVE SelectSeq2(_, _)
\* the elements of s that satisfy / do not satisfy IsValidURL, in order
SelectSeq2(s, wantUrl) ==
    IF s = <<>> THEN <<>>
    ELSE IF IsValidURL(Head(s)) = wantUrl
         THEN <<Head(s)>> \o SelectSeq2(Tail(s), wantUrl)
         ELSE SelectSeq2(Tail(s), wantUrl)

VARIABLES
    resources,            \* argument: the resource list
    params,               \* argument: [Note, NamesOnly]
    stdin,                \* "tty", "emptyPipe" or "pipe" (a pipe holding data)
    mainPc,               \* position of MustLoadContext's own goroutine
    outcome,              \* "running", "returned", or the reason of os.Exit
    reportedTotal,        \* the total printed by the budget abort (-1: none)
    planState,            \* the PlanState struct read by GetPlanState
    totalTokens,
    totalUpdatableTokens,
    tokensAdded,
    totalTokensMutex,     \* <<"free", 0>> or the worker holding it
    contextParts,         \* the unit list
    spawned,              \* workers started (wg.Add)
    wpc,                  \* position of each worker goroutine
    numTokens,            \* each worker's numTokens
    flattenedPaths,       \* ParseInputPaths' result in full-content mode
    hasPipeData,
    wrPc,                 \* position of the two persistence goroutines
    wrErr,                \* the value each persistence goroutine sends
    errCh,                \* buffered channel (capacity 2) of write results
    joinI,                \* loop counter of the join loop
    storedContext,        \* persisted context store: units appended to it
    storedPlanState,      \* persisted PlanState
    gitLog,               \* audit log: GitCommitContextUpdate entries
    startPlanState        \* history: the persisted PlanState when the call began

loadVars == <<resources, params, stdin, mainPc, outcome, reportedTotal, planState,
              totalTokens, totalUpdatableTokens, tokensAdded, totalTokensMutex,
              contextParts, spawned, wpc, numTokens, flattenedPaths, hasPipeData,
              wrPc, wrErr, errCh, joinI, storedContext, storedPlanState, gitLog,
              startPlanState>>

VARIABLES
    ignoreFile,           \* .plandexignore in currentDir: "absent", "present", "bad"
    ignoreLines,          \* the patterns of .plandexignore, in order
    isGitRepo,            \* IsGitRepo(baseDir)
    gitStatus,            \* each file of the tree: "tracked", "untracked" or "excluded"
    baseDir,              \* argument
    currentDir,           \* argument
    paths,                \* map[string]bool, as the set of its keys
    ignoredPaths,
    dirs,
    mu,                   \* "free" or the producer holding the mutex
    ppc,                  \* position of each producer goroutine
    files,                \* each listing producer's files slice
    idx,                  \* each producer's position in its loop or walk
    sendVal,              \* the value each producer sends on errCh
    cpc,                  \* position of GetPaths' own goroutine
    numRoutines,
    recvI,                \* loop counter of the receive loop
    ret                   \* what GetPaths returned: [paths, isNil, err], a nil
                          \* map having no keys

pathVars == <<ignoreFile, ignoreLines, isGitRepo, gitStatus, baseDir, currentDir,
              paths, ignoredPaths, dirs, mu, ppc, files, idx, sendVal, cpc,
              numRoutines, recvI, ret>>

VARIABLES
    ProjectRoot,          \* the package variable, a directory
    PlandexDir,           \* the package variable, the marker directory found in Cwd
    cwdMarker,            \* whether Cwd holds the marker directory .plandex
    focRet,               \* what FindOrCreatePlandex returned: [dir, created, err]
    filePaths,            \* GetBaseDirForFilePaths' argument paths, as character sequences
    gbPc,                 \* position of GetBaseDirForFilePaths
    gbI,                  \* index of the path the loop stands at
    dirsUp,
    gbBaseDir,            \* the local baseDir
    gbRet                 \* what GetBaseDirForFilePaths returned

baseVars == <<ProjectRoot, PlandexDir, cwdMarker, focRet, filePaths, gbPc, gbI, dirsUp,
              gbBaseDir, gbRet>>

VARIABLES
    dirStatus,              \* each directory: "none", "marker" (marker directory without
                          \* settings file) or "project" (marker directory with settings file)
    cwdSettings,          \* whether Cwd holds a file named project.json
    entryErr,             \* the error the file system gives for each entry under Cwd
    ctxDone,              \* whether ctx.Done() is closed
    idsAtDeadline,        \* childProjectIds when the deadline fired (history)
    childPc,              \* position of GetChildProjectIdsWithPaths
    cIdx,                 \* the entry filepath.Walk stands at
    childProjectIds,
    childRet,             \* what GetChildProjectIdsWithPaths returned
    parentPc,             \* position of GetParentProjectIdsWithPaths
    parentDir,            \* its local currentDir
    parentProjectIds,
    parentRet             \* what GetParentProjectIdsWithPaths returned

projVars == <<dirStatus, cwdSettings, entryErr, ctxDone, idsAtDeadline, childPc, cIdx,
              childProjectIds, childRet, parentPc, parentDir, parentProjectIds,
              parentRet>>

\* what a call of MustLoadContext leaves alone
restVars == <<pathVars, baseVars, projVars>>

vars == <<loadVars, pathVars, baseVars, projVars>>

inputUrls == SelectSeq2(resources, TRUE)
inputFilePaths == SelectSeq2(resources, FALSE)

NoteWorker == <<"note", 0>>
PipeWorker == <<"pipe", 0>>
Free == <<"free", 0>>

Workers ==
    {NoteWorker, PipeWorker}
      \cup {<<"path", i>> : i \in 1..MaxUnits}
      \cup {<<"url", i>> : i \in 1..MaxUnits}

\* the kind of unit a worker builds
Kind(w) ==
    CASE w[1] = "note" -> "note"
      [] w[1] = "pipe" -> "piped"
      [] w[1] = "url" -> "url"
      [] OTHER -> IF params.NamesOnly THEN "tree" ELSE "file"

Updatable(kind) == kind \in {"tree", "file", "url"}

\* the first step of a worker of each kind
FirstPc(kind) ==
    CASE kind = "tree" -> "parse"
      [] kind = "file" -> "read"
      [] kind = "url" -> "fetch"
      [] OTHER -> "count"

\* the reason reported when that first step fails
FirstFailure(kind) ==
    CASE kind = "tree" -> "parseInputPaths"
      [] kind = "file" -> "readFile"
      [] kind = "url" -> "fetchURL"
      [] OTHER -> "getNumTokens"

Writers == {"parts", "state"}

\* sum of numTokens over a set of workers: the size of the bag that holds each
\* worker as many times as its unit has tokens
SumTokens(S) ==
    BagCardinality([w \in {x \in S : numTokens[x] > 0} |-> numTokens[w]])

RECURSIVE SumParts(_)
\* sum of NumTokens over a unit list
SumParts(s) ==
    IF s = <<>> THEN 0 ELSE Head(s).NumTokens + SumParts(Tail(s))

\* the units of work the note and the piped data make
FixedUnits == (IF params.Note THEN 1 ELSE 0) + (IF stdin = "pipe" THEN 1 ELSE 0)

(***************************************************************************)
(* Initial state: the call is entered, nothing has run.                    *)
(***************************************************************************)
LoadInit ==
    /\ resources \in UNION {[1..n -> ResourceUniverse] : n \in 0..MaxUnits}
    /\ params \in [Note : BOOLEAN, NamesOnly : BOOLEAN]
    /\ stdin \in {"tty", "emptyPipe", "pipe"}
    \* past line 133 an empty pipe and a terminal are the same to the code: the
    \* empty pipe is tried without resources only
    /\ stdin = "emptyPipe" => resources = <<>>
    \* in full-content mode the names come from ParseInputPaths' result, not from
    \* how an input path is written: one spelling of a path is tried there
    /\ ~params.NamesOnly =>
          \A i \in 1..Len(resources) : IsValidURL(resources[i]) \/ resources[i] = <<".">>
    \* params.NamesOnly is read for input paths only (lines 210-211): it is
    \* set in calls that name a path
    /\ params.NamesOnly => \E i \in 1..Len(resources) : ~IsValidURL(resources[i])
    \* the paths of one call are written the same way
    /\ \A i, j \in 1..Len(resources) :
          (~IsValidURL(resources[i]) /\ ~IsValidURL(resources[j]))
             => resources[i] = resources[j]
    /\ FixedUnits + Len(resources) <= MaxUnits
    /\ mainPc = "getPlanState"
    /\ outcome = "running"
    /\ reportedTotal = -1
    /\ planState = [ContextTokens |-> 0, ContextUpdatableTokens |-> 0]
    /\ totalTokens = 0
    /\ totalUpdatableTokens = 0
    /\ tokensAdded = 0
    /\ totalTokensMutex = Free
    /\ contextParts = <<>>
    /\ spawned = {}
    /\ wpc = [w \in Workers |-> "idle"]
    /\ numTokens = [w \in Workers |-> 0]
    /\ flattenedPaths = <<>>
    /\ hasPipeData = FALSE
    /\ wrPc = [x \in Writers |-> "idle"]
    /\ wrErr = [x \in Writers |-> "nil"]
    /\ errCh = <<>>
    /\ joinI = 0
    /\ storedContext = <<>>
    /\ \E c \in {0, MaxInitialTokens} : \E u \in {0, c} :
          storedPlanState = [ContextTokens |-> c, ContextUpdatableTokens |-> u]
    /\ gitLog = <<>>
    /\ startPlanState = storedPlanState

(***************************************************************************)
(* os.Exit(1): the process ends where it stands; no goroutine runs on.     *)
(***************************************************************************)
Running == outcome = "running"

Exit(reason) == outcome' = reason

\* wg.Add(1); go func() for every worker of S
Spawn(S) ==
    /\ spawned' = spawned \cup S
    /\ wpc' = [w \in Workers |-> IF w \in S THEN FirstPc(Kind(w)) ELSE wpc[w]]

(***************************************************************************)
(* MustLoadContext's own goroutine, up to the barrier.                     *)
(***************************************************************************)
\* lines 35-46
GetPlanState ==
    /\ Running /\ mainPc = "getPlanState"
    /\ \/ /\ Exit("getPlanState")
          /\ UNCHANGED <<mainPc, planState, totalTokens, totalUpdatableTokens>>
       \/ /\ planState' = storedPlanState
          /\ totalTokens' = storedPlanState.ContextTokens
          /\ totalUpdatableTokens' = storedPlanState.ContextUpdatableTokens
          /\ mainPc' = "note"
          /\ UNCHANGED outcome
    /\ UNCHANGED <<restVars, resources, params, stdin, reportedTotal, tokensAdded,
                   totalTokensMutex, contextParts, spawned, wpc, numTokens,
                   flattenedPaths, hasPipeData, wrPc, wrErr, errCh, joinI,
                   storedContext, storedPlanState, gitLog, startPlanState>>

\* lines 53-56
DispatchNote ==
    /\ Running /\ mainPc = "note"
    /\ IF params.Note THEN Spawn({NoteWorker}) ELSE UNCHANGED <<spawned, wpc>>
    /\ mainPc' = "stdin"
    /\ UNCHANGED <<restVars, resources, params, stdin, outcome, reportedTotal, planState,
                   totalTokens, totalUpdatableTokens, tokensAdded, totalTokensMutex,
                   contextParts, numTokens, flattenedPaths, hasPipeData, wrPc,
                   wrErr, errCh, joinI, storedContext, storedPlanState, gitLog, startPlanState>>

\* lines 115-138
ReadStdin ==
    /\ Running /\ mainPc = "stdin"
    /\ \/ /\ Exit("statStdin")
          /\ UNCHANGED <<mainPc, spawned, wpc, hasPipeData>>
       \/ /\ stdin # "tty"
          /\ Exit("readStdin")
          /\ UNCHANGED <<mainPc, spawned, wpc, hasPipeData>>
       \/ /\ IF stdin = "pipe"
             THEN Spawn({PipeWorker}) /\ hasPipeData' = TRUE
             ELSE UNCHANGED <<spawned, wpc, hasPipeData>>
          /\ mainPc' = "resources"
          /\ UNCHANGED outcome
    /\ UNCHANGED <<restVars, resources, params, stdin, reportedTotal, planState,
                   totalTokens, totalUpdatableTokens, tokensAdded, totalTokensMutex,
                   contextParts, numTokens, flattenedPaths, wrPc, wrErr, errCh,
                   joinI, storedContext, storedPlanState, gitLog, startPlanState>>

\* the URL workers, one per input URL
UrlWorkers == {<<"url", i>> : i \in 1..Len(inputUrls)}

\* lines 196-215, 283-295 and 356-360: the resources are classified, and one
\* worker starts per path ("names only"), per expanded file (full content), and
\* per URL
DispatchResources ==
    /\ Running /\ mainPc = "resources"
    /\ \/ /\ Len(inputFilePaths) = 0
          /\ Spawn(UrlWorkers)
          /\ mainPc' = "wait"
          /\ UNCHANGED <<outcome, flattenedPaths>>
       \/ /\ Len(inputFilePaths) > 0 /\ params.NamesOnly
          /\ Spawn({<<"path", i>> : i \in 1..Len(inputFilePaths)} \cup UrlWorkers)
          /\ mainPc' = "wait"
          /\ UNCHANGED <<outcome, flattenedPaths>>
       \/ /\ Len(inputFilePaths) > 0 /\ ~params.NamesOnly
          /\ \/ /\ Exit("parseInputPaths")
                /\ UNCHANGED <<mainPc, spawned, wpc, flattenedPaths>>
             \/ /\ \E m \in 0..(MaxUnits - FixedUnits - Len(inputUrls)) :
                      /\ flattenedPaths' = SubSeq(AllFiles, 1, m)
                      /\ Spawn({<<"path", i>> : i \in 1..m} \cup UrlWorkers)
                /\ mainPc' = "wait"
                /\ UNCHANGED outcome
    /\ UNCHANGED <<restVars, resources, params, stdin, reportedTotal, planState,
                   totalTokens, totalUpdatableTokens, tokensAdded, totalTokensMutex,
                   contextParts, numTokens, hasPipeData, wrPc, wrErr, errCh,
                   joinI, storedContext, storedPlanState, gitLog, startPlanState>>

(***************************************************************************)
(* The worker goroutines.                                                  *)
(***************************************************************************)
workerFrame == <<restVars, resources, params, stdin, mainPc, planState, spawned,
                 flattenedPaths, hasPipeData, wrPc, wrErr, errCh, joinI,
                 storedContext, storedPlanState, gitLog, startPlanState>>

Goto(w, pc) == wpc' = [wpc EXCEPT ![w] = pc]

At(w, pc) == Running /\ w \in spawned /\ wpc[w] = pc

\* The steps before the critical section touch nothing shared: the collaborator
\* call of the kind (line 218 ParseInputPaths, 298 os.ReadFile, 363
\* url.FetchURLContent), then shared.GetNumTokens (lines 60, 142, 231, 309, 371).
\* Either fails and the process exits, or numTokens is known.
WorkerCount(w) ==
    /\ Running /\ w \in spawned /\ wpc[w] \in {"parse", "read", "fetch", "count"}
    /\ \/ Exit(FirstFailure(Kind(w))) /\ UNCHANGED <<wpc, numTokens>>
       \/ Exit("getNumTokens") /\ UNCHANGED <<wpc, numTokens>>
       \/ /\ \E n \in TokenCounts : numTokens' = [numTokens EXCEPT ![w] = n]
          /\ Goto(w, "lock")
          /\ UNCHANGED outcome
    /\ UNCHANGED <<reportedTotal, totalTokens, totalUpdatableTokens, tokensAdded,
                   totalTokensMutex, contextParts>>
    /\ UNCHANGED workerFrame

\* totalTokensMutex.Lock()
WorkerLock(w) ==
    /\ At(w, "lock")
    /\ totalTokensMutex = Free
    /\ totalTokensMutex' = w
    /\ Goto(w, "addTotal")
    /\ UNCHANGED <<outcome, reportedTotal, totalTokens, totalUpdatableTokens,
                   tokensAdded, contextParts, numTokens>>
    /\ UNCHANGED workerFrame

\* the statement that follows totalTokens += numTokens, by kind
AfterAddTotal(kind) == IF kind = "tree" THEN "addUpdatable" ELSE "addAdded"

\* mutant of AfterAddAdded: a note and piped data add to the updatable sub-total
AfterAddAddedAllKinds(kind) == IF kind = "tree" THEN "check" ELSE "addUpdatable"

\* the statement that follows tokensAdded += numTokens, by kind
AfterAddAdded(kind) == IF kind \in {"file", "url"} THEN "addUpdatable" ELSE "check"

\* the statement that follows totalUpdatableTokens += numTokens, by kind
AfterAddUpdatable(kind) == IF kind = "tree" THEN "addAdded" ELSE "check"

\* mutant of WorkerAddTotal: the sum is made from a value of totalTokens read
\* before the lock, so the increments of the other workers are lost
WorkerAddTotalStale(w) ==
    /\ At(w, "addTotal")
    /\ totalTokens' = startPlanState.ContextTokens + numTokens[w]
    /\ Goto(w, AfterAddTotal(Kind(w)))
    /\ UNCHANGED <<outcome, reportedTotal, totalUpdatableTokens, tokensAdded,
                   totalTokensMutex, contextParts, numTokens>>
    /\ UNCHANGED workerFrame

\* totalTokens += numTokens
WorkerAddTotal(w) ==
    /\ At(w, "addTotal")
    /\ totalTokens' = totalTokens + numTokens[w]
    /\ Goto(w, AfterAddTotal(Kind(w)))
    /\ UNCHANGED <<outcome, reportedTotal, totalUpdatableTokens, tokensAdded,
                   totalTokensMutex, contextParts, numTokens>>
    /\ UNCHANGED workerFrame

\* mutant of WorkerAddAdded: the count is assigned, not added
WorkerAddAddedOverwrite(w) ==
    /\ At(w, "addAdded")
    /\ tokensAdded' = numTokens[w]
    /\ Goto(w, AfterAddAdded(Kind(w)))
    /\ UNCHANGED <<outcome, reportedTotal, totalTokens, totalUpdatableTokens,
                   totalTokensMutex, contextParts, numTokens>>
    /\ UNCHANGED workerFrame

\* tokensAdded += numTokens
WorkerAddAdded(w) ==
    /\ At(w, "addAdded")
    /\ tokensAdded' = tokensAdded + numTokens[w]
    /\ Goto(w, AfterAddAdded(Kind(w)))
    /\ UNCHANGED <<outcome, reportedTotal, totalTokens, totalUpdatableTokens,
                   totalTokensMutex, contextParts, numTokens>>
    /\ UNCHANGED workerFrame

\* totalUpdatableTokens += numTokens
WorkerAddUpdatable(w) ==
    /\ At(w, "addUpdatable")
    /\ totalUpdatableTokens' = totalUpdatableTokens + numTokens[w]
    /\ Goto(w, AfterAddUpdatable(Kind(w)))
    /\ UNCHANGED <<outcome, reportedTotal, totalTokens, tokensAdded,
                   totalTokensMutex, contextParts, numTokens>>
    /\ UNCHANGED workerFrame

\* mutant of AfterCheck: the worker of a note ends without appending its unit
AfterCheckNoteDone(kind) == IF kind = "note" THEN "done" ELSE "append"

\* the step after the critical section
AfterCheck(kind) == "append"

\* mutant of OverBudget: the comparison is off by one
OverBudgetOffByOne == totalTokens > maxTokens + 1

\* lines 75, 156, 245, 323, 385: totalTokens > maxTokens
OverBudget == totalTokens > maxTokens

\* mutant of ReportedTotal: the message prints the wrong counter
ReportedTotalAdded == tokensAdded

\* lines 78, 159, 248, 326, 388: the total the abort message prints
ReportedTotal == totalTokens

\* if totalTokens > maxTokens { ... fmt.Fprintf(os.Stderr, ...) (lines 78, 159,
\* 248, 326, 388), with os.Exit(1) the next statement; else the deferred Unlock
WorkerCheck(w) ==
    /\ At(w, "check")
    /\ IF OverBudget
       THEN /\ reportedTotal' = ReportedTotal
            /\ Goto(w, "exit")
            /\ UNCHANGED totalTokensMutex
       ELSE /\ totalTokensMutex' = Free
            /\ Goto(w, AfterCheck(Kind(w)))
            /\ UNCHANGED reportedTotal
    /\ UNCHANGED <<outcome, totalTokens, totalUpdatableTokens, tokensAdded,
                   contextParts, numTokens>>
    /\ UNCHANGED workerFrame

\* lines 79, 160, 249, 327, 389: os.Exit(1) after the budget message; until it
\* runs the other goroutines go on, and one of them may end the process first
WorkerExit(w) ==
    /\ At(w, "exit")
    /\ Exit("budget")
    /\ UNCHANGED <<reportedTotal, wpc, totalTokens, totalUpdatableTokens,
                   tokensAdded, totalTokensMutex, contextParts, numTokens>>
    /\ UNCHANGED workerFrame

RECURSIVE StripSlashes(_)
\* a path without its trailing slashes
StripSlashes(path) ==
    IF path # <<>> /\ path[Len(path)] = "/"
    THEN StripSlashes(SubSeq(path, 1, Len(path) - 1))
    ELSE path

\* filepath.Base (line 257): the last element of the path, trailing slashes
\* aside; "." for the empty path and "/" for a path of slashes only
Base(path) ==
    IF path = <<>> THEN <<".">>
    ELSE LET stripped == StripSlashes(path)
             slashes == {i \in 1..Len(stripped) : stripped[i] = "/"}
             from == IF slashes = {} THEN 1
                     ELSE 1 + CHOOSE i \in slashes : \A j \in slashes : j <= i
             last == SubSeq(stripped, from, Len(stripped))
         IN IF last = <<>> THEN <<"/">> ELSE last

\* lines 257-263: the local name of a names-only worker, filepath.Base of the
\* input path with "." replaced by "cwd" and ".." by "parent"
TreeName(inputFilePath) ==
    LET name == Base(inputFilePath)
    IN IF name = <<".">> THEN <<"c", "w", "d">>
       ELSE IF name = <<".", ".">> THEN <<"p", "a", "r", "e", "n", "t">>
       ELSE name

\* the Name field of the unit: lines 99, 180 (the name Api.FileName gave), 267,
\* 336, 406 (the sanitized URL); the input path is kept character by character,
\* the other names are taken as they come
PartName(w) ==
    CASE Kind(w) = "tree" -> inputFilePaths[w[2]]
      [] Kind(w) = "file" -> flattenedPaths[w[2]]
      [] Kind(w) = "url" -> "sanitizedUrl"
      [] OTHER -> "fileName"

\* the FilePath field of the unit: lines 268 and 338, unset for the other kinds
PartFilePath(w) ==
    CASE Kind(w) = "tree" -> inputFilePaths[w[2]]
      [] Kind(w) = "file" -> flattenedPaths[w[2]]
      [] OTHER -> ""

\* the unit a worker builds
ContextPart(w) ==
    [Type |-> Kind(w), Name |-> PartName(w), FilePath |-> PartFilePath(w),
     NumTokens |-> numTokens[w], Worker |-> w]

\* After the critical section: for a note or piped data Api.FileName (lines 86,
\* 167), which can fail; then contextPartsMutex.Lock(); append; Unlock() and the
\* deferred wg.Done().
WorkerAppend(w) ==
    /\ At(w, "append")
    /\ \/ /\ Kind(w) \in {"note", "piped"}
          /\ Exit("fileName")
          /\ UNCHANGED <<wpc, contextParts>>
       \/ /\ contextParts' = Append(contextParts, ContextPart(w))
          /\ Goto(w, "done")
          /\ UNCHANGED outcome
    /\ UNCHANGED <<reportedTotal, totalTokens, totalUpdatableTokens,
                   tokensAdded, totalTokensMutex, numTokens>>
    /\ UNCHANGED workerFrame

(***************************************************************************)
(* The barrier and the persistence step.                                   *)
(***************************************************************************)
persistFrame == <<restVars, resources, params, stdin, reportedTotal, totalTokens,
                  totalUpdatableTokens, tokensAdded, totalTokensMutex, contextParts,
                  spawned, wpc, numTokens, flattenedPaths, hasPipeData,
                  startPlanState>>

\* mutant of AllWorkersDone: the barrier opens at the first worker done
SomeWorkerDone == \E w \in spawned : wpc[w] = "done"

\* the wait group's count is zero: every wg.Add(1) has met its wg.Done()
AllWorkersDone == \A w \in spawned : wpc[w] = "done"

\* line 422: wg.Wait()
Wait ==
    /\ Running /\ mainPc = "wait"
    /\ AllWorkersDone
    /\ mainPc' = "empty"
    /\ UNCHANGED <<outcome, planState, wrPc, wrErr, errCh, joinI, storedContext,
                   storedPlanState, gitLog>>
    /\ UNCHANGED persistFrame

\* mutant of NothingLoaded: the resource list is tested, not the unit list
NothingLoadedByResources == Len(resources) = 0

\* line 450: len(contextParts) == 0
NothingLoaded == Len(contextParts) = 0

\* lines 450-464: the empty check, then the two persistence goroutines start
CheckEmpty ==
    /\ Running /\ mainPc = "empty"
    /\ IF NothingLoaded
       THEN Exit("noContext") /\ UNCHANGED <<mainPc, wrPc>>
       ELSE /\ wrPc' = [x \in Writers |-> "write"]
            /\ mainPc' = "join"
            /\ UNCHANGED outcome
    /\ UNCHANGED <<planState, wrErr, errCh, joinI, storedContext, storedPlanState,
                   gitLog>>
    /\ UNCHANGED persistFrame

\* line 457: writeContextParts(contextParts)
WriteContextParts ==
    /\ Running /\ wrPc["parts"] = "write"
    /\ \/ /\ storedContext' = storedContext \o contextParts
          /\ wrErr' = [wrErr EXCEPT !["parts"] = "nil"]
       \/ /\ wrErr' = [wrErr EXCEPT !["parts"] = "err"]
          /\ UNCHANGED storedContext
    /\ wrPc' = [wrPc EXCEPT !["parts"] = "send"]
    /\ UNCHANGED <<mainPc, outcome, planState, errCh, joinI, storedPlanState, gitLog>>
    /\ UNCHANGED persistFrame

\* mutant of NewPlanState: the two counters are swapped
NewPlanStateSwapped ==
    [ContextTokens |-> totalUpdatableTokens, ContextUpdatableTokens |-> totalTokens]

\* lines 461-462: the values the two fields of planState are given
NewPlanState ==
    [ContextTokens |-> totalTokens, ContextUpdatableTokens |-> totalUpdatableTokens]

\* line 461: planState.ContextTokens = totalTokens
SetContextTokens ==
    /\ Running /\ wrPc["state"] = "write"
    /\ planState' = [planState EXCEPT !.ContextTokens = NewPlanState.ContextTokens]
    /\ wrPc' = [wrPc EXCEPT !["state"] = "updatable"]
    /\ UNCHANGED <<mainPc, outcome, wrErr, errCh, joinI, storedContext,
                   storedPlanState, gitLog>>
    /\ UNCHANGED persistFrame

\* line 462: planState.ContextUpdatableTokens = totalUpdatableTokens
SetContextUpdatableTokens ==
    /\ Running /\ wrPc["state"] = "updatable"
    /\ planState' = [planState EXCEPT
                       !.ContextUpdatableTokens = NewPlanState.ContextUpdatableTokens]
    /\ wrPc' = [wrPc EXCEPT !["state"] = "call"]
    /\ UNCHANGED <<mainPc, outcome, wrErr, errCh, joinI, storedContext,
                   storedPlanState, gitLog>>
    /\ UNCHANGED persistFrame

\* line 463: SetPlanState(planState, shared.StringTs()), whose result is sent next
SetPlanState ==
    /\ Running /\ wrPc["state"] = "call"
    /\ \/ /\ storedPlanState' = planState
          /\ wrErr' = [wrErr EXCEPT !["state"] = "nil"]
       \/ /\ wrErr' = [wrErr EXCEPT !["state"] = "err"]
          /\ UNCHANGED storedPlanState
    /\ wrPc' = [wrPc EXCEPT !["state"] = "send"]
    /\ UNCHANGED <<mainPc, outcome, planState, errCh, joinI, storedContext, gitLog>>
    /\ UNCHANGED persistFrame

\* errCh <- result; the channel holds two values, so a send never blocks
SendResult(x) ==
    /\ Running /\ wrPc[x] = "send"
    /\ errCh' = Append(errCh, wrErr[x])
    /\ wrPc' = [wrPc EXCEPT ![x] = "done"]
    /\ UNCHANGED <<mainPc, outcome, planState, wrErr, joinI, storedContext,
                   storedPlanState, gitLog>>
    /\ UNCHANGED persistFrame

\* mutant of JoinCount: the loop receives one result only
JoinCountOne == 2 - 1

\* line 466: the number of results the join loop receives
JoinCount == 2

\* lines 466-472: one iteration of the join loop
Join ==
    /\ Running /\ mainPc = "join"
    /\ errCh # <<>>
    /\ errCh' = Tail(errCh)
    /\ IF Head(errCh) # "nil"
       THEN Exit("writeContext") /\ UNCHANGED <<mainPc, joinI>>
       ELSE /\ joinI' = joinI + 1
            /\ mainPc' = IF joinI + 1 < JoinCount THEN "join" ELSE "commit"
            /\ UNCHANGED outcome
    /\ UNCHANGED <<planState, wrPc, wrErr, storedContext, storedPlanState, gitLog>>
    /\ UNCHANGED persistFrame

\* lines 542-555: GitCommitContextUpdate, then return tokensAdded, totalTokens
GitCommitContextUpdate ==
    /\ Running /\ mainPc = "commit"
    /\ \/ /\ Len(contextParts) > 0
          /\ \/ Exit("gitCommit") /\ UNCHANGED <<mainPc, gitLog>>
             \/ /\ gitLog' = Append(gitLog, [added |-> tokensAdded,
                                             total |-> totalTokens,
                                             parts |-> contextParts])
                /\ outcome' = "returned"
                /\ mainPc' = "returned"
       \/ /\ Len(contextParts) = 0
          /\ outcome' = "returned"
          /\ mainPc' = "returned"
          /\ UNCHANGED gitLog
    /\ UNCHANGED <<planState, wrPc, wrErr, errCh, joinI, storedContext,
                   storedPlanState>>
    /\ UNCHANGED persistFrame

LoadNext ==
    \/ GetPlanState
    \/ DispatchNote
    \/ ReadStdin
    \/ DispatchResources
    \/ \E w \in Workers : WorkerCount(w)
    \/ \E w \in Workers : WorkerLock(w)
    \/ \E w \in Workers : WorkerAddTotal(w)
    \/ \E w \in Workers : WorkerAddAdded(w)
    \/ \E w \in Workers : WorkerAddUpdatable(w)
    \/ \E w \in Workers : WorkerCheck(w)
    \/ \E w \in Workers : WorkerExit(w)
    \/ \E w \in Workers : WorkerAppend(w)
    \/ Wait
    \/ CheckEmpty
    \/ WriteContextParts
    \/ SetContextTokens
    \/ SetContextUpdatableTokens
    \/ SetPlanState
    \/ \E x \in Writers : SendResult(x)
    \/ Join
    \/ GitCommitContextUpdate

(***************************************************************************)
(* GetPaths: the file tree, the paths and the ignore matcher.              *)
(***************************************************************************)
\* the most lines .plandexignore holds
MaxPatterns == 2

\* A path is the sequence of its segments. The tree under baseDir without the
\* ignore file, in the order filepath.Walk visits it (lexical, depth first); the
\* root comes first.
TreeEntries ==
    << [path |-> <<>>, isDir |-> TRUE],
       [path |-> <<"a">>, isDir |-> TRUE],
       [path |-> <<"a", "b.log">>, isDir |-> FALSE],
       [path |-> <<"a", "c">>, isDir |-> TRUE],
       [path |-> <<"a", "c", "k.txt">>, isDir |-> FALSE],
       [path |-> <<"x.txt">>, isDir |-> FALSE] >>

\* line 289: the ignore file of currentDir, as a path of the tree
IgnorePath == SubSeq(currentDir.path, 2, Len(currentDir.path)) \o <<".plandexignore">>

\* The tree filepath.Walk visits (line 230). An ignore file that exists lies in
\* currentDir, a directory of the tree; its name sorts before the other names
\* there, so it is visited right after that directory.
WalkEntries ==
    IF ignoreFile = "absent" THEN TreeEntries
    ELSE LET dir == SubSeq(IgnorePath, 1, Len(IgnorePath) - 1)
             k == CHOOSE i \in 1..Len(TreeEntries) : TreeEntries[i].path = dir
         IN SubSeq(TreeEntries, 1, k)
              \o << [path |-> IgnorePath, isDir |-> FALSE] >>
              \o SubSeq(TreeEntries, k + 1, Len(TreeEntries))

RECURSIVE FilesOf(_)
\* the paths of the files among entries, in order
FilesOf(entries) ==
    IF entries = <<>> THEN <<>>
    ELSE IF Head(entries).isDir THEN FilesOf(Tail(entries))
         ELSE <<Head(entries).path>> \o FilesOf(Tail(entries))

\* the files of the tree, in the order git lists them
FileUniverse == FilesOf(WalkEntries)

\* the lines an ignore file is written from: *.log, a, !c
PatternUniverse ==
    { [Negate |-> FALSE, Glob |-> "*.log"],
      [Negate |-> FALSE, Glob |-> "a"],
      [Negate |-> TRUE, Glob |-> "c"] }

\* the directory GetPaths is run for, as an absolute path
RootDir == [abs |-> TRUE, path |-> <<"r">>]

IsPrefix(s, t) == Len(s) <= Len(t) /\ SubSeq(t, 1, Len(s)) = s

RECURSIVE CommonLen(_, _)
\* the length of the longest common prefix of two paths
CommonLen(s, t) ==
    IF s = <<>> \/ t = <<>> \/ Head(s) # Head(t) THEN 0
    ELSE 1 + CommonLen(Tail(s), Tail(t))

\* filepath.Join(baseDir, file): the empty file name gives baseDir itself
JoinPath(dir, file) == [abs |-> dir.abs, path |-> dir.path \o file]

\* filepath.Rel(base, target): "err" when only one of the two is absolute, else
\* the path from base to target: one ".." per remaining segment of base, then
\* the rest of target; "." when they are the same
Rel(base, target) ==
    IF base.abs # target.abs THEN "err"
    ELSE LET n == CommonLen(base.path, target.path)
             ups == [i \in 1..(Len(base.path) - n) |-> ".."]
             rest == SubSeq(target.path, n + 1, Len(target.path))
         IN IF ups \o rest = <<>> THEN <<".">> ELSE ups \o rest

\* whether one segment matches a glob without a slash
SegMatches(glob, seg) ==
    IF glob = "*.log" THEN seg \in {"b.log"} ELSE seg = glob

\* go-gitignore compiles a line without a slash to ^(|.*/)glob(|/.*)$: the path
\* matches when one of its segments matches the glob
PatternMatches(ip, path) ==
    \E i \in 1..Len(path) : SegMatches(ip.Glob, path[i])

RECURSIVE MatchesFrom(_, _, _)
\* the patterns in order: a matching plain pattern sets the result, a matching
\* negated pattern clears it
MatchesFrom(patterns, path, matchesPath) ==
    IF patterns = <<>> THEN matchesPath
    ELSE LET ip == Head(patterns)
             m == IF PatternMatches(ip, path)
                  THEN (IF ip.Negate THEN FALSE ELSE TRUE)
                  ELSE matchesPath
         IN MatchesFrom(Tail(patterns), path, m)

\* ignored.MatchesPath(relPath)
MatchesPath(path) == MatchesFrom(ignoreLines, path, FALSE)

\* ignored != nil && ignored.MatchesPath(relPath)
Ignored(relPath) == ignoreFile = "present" /\ MatchesPath(relPath)

RECURSIVE FilesWithStatus(_, _)
\* the files of s with the given git status, in order
FilesWithStatus(s, status) ==
    IF s = <<>> THEN <<>>
    ELSE IF gitStatus[Head(s)] = status
         THEN <<Head(s)>> \o FilesWithStatus(Tail(s), status)
         ELSE FilesWithStatus(Tail(s), status)

\* strings.Split(string(out), "\n") of a listing: every line ends in a newline,
\* so the slice ends with an empty string
SplitOutput(listing) == listing \o << <<>> >>

Listings == {"tracked", "untracked"}
Producers == Listings \cup {"walk"}

\* the first entry after i that lies outside the directory at i (filepath.SkipDir)
SkipDir(i) ==
    LET after == {j \in (i + 1)..Len(WalkEntries) :
                     ~IsPrefix(WalkEntries[i].path, WalkEntries[j].path)}
    IN IF after = {} THEN Len(WalkEntries) + 1
       ELSE CHOOSE j \in after : \A k \in after : j <= k

(***************************************************************************)
(* GetPaths: initial state.                                                *)
(***************************************************************************)
PathsIdle ==
    /\ ignoreFile = "absent"
    /\ ignoreLines = <<>>
    /\ isGitRepo = FALSE
    /\ gitStatus = [f \in {FileUniverse[i] : i \in 1..Len(FileUniverse)} |-> "untracked"]
    /\ baseDir = RootDir
    /\ currentDir = RootDir
    /\ paths = {}
    /\ ignoredPaths = {}
    /\ dirs = {}
    /\ mu = "free"
    /\ ppc = [p \in Producers |-> "idle"]
    /\ files = [p \in Listings |-> <<>>]
    /\ idx = [p \in Producers |-> 1]
    /\ sendVal = [p \in Producers |-> "nil"]
    /\ numRoutines = 0
    /\ recvI = 0
    /\ ret = [paths |-> {}, isNil |-> TRUE, err |-> "none"]

PathsInit ==
    /\ ignoreFile \in {"absent", "present", "bad"}
    /\ ignoreLines \in UNION {[1..n -> PatternUniverse] : n \in 0..MaxPatterns}
    /\ ignoreFile # "present" => ignoreLines = <<>>
    /\ \E b \in {RootDir, [RootDir EXCEPT !.abs = FALSE]} :
       \E c \in {RootDir, JoinPath(RootDir, <<"a">>)} :
          /\ baseDir = b
          /\ currentDir = c
          /\ ~b.abs => c = RootDir
    /\ isGitRepo \in BOOLEAN
    /\ gitStatus \in [{FileUniverse[i] : i \in 1..Len(FileUniverse)}
                        -> {"tracked", "untracked", "excluded"}]
    \* the ignore file is committed, or git's exclude rules keep it out of both
    \* listings; x.txt is committed; the other files are committed or new
    /\ \A f \in DOMAIN gitStatus :
          /\ gitStatus[f] = "excluded" => f = IgnorePath
          /\ (isGitRepo /\ f \in {IgnorePath, <<"x.txt">>}) => gitStatus[f] # "untracked"
    /\ ~isGitRepo => \A f \in DOMAIN gitStatus : gitStatus[f] = "untracked"
    /\ paths = {}
    /\ ignoredPaths = {}
    /\ dirs = {}
    /\ mu = "free"
    /\ ppc = [p \in Producers |-> "idle"]
    /\ files = [p \in Listings |-> <<>>]
    /\ idx = [p \in Producers |-> 1]
    /\ sendVal = [p \in Producers |-> "nil"]
    /\ cpc = "start"
    /\ numRoutines = 0
    /\ recvI = 0
    /\ ret = [paths |-> {}, isNil |-> TRUE, err |-> "none"]

(***************************************************************************)
(* GetPaths' own goroutine.                                                *)
(***************************************************************************)
inputFrame == <<loadVars, baseVars, projVars, ignoreFile, ignoreLines, isGitRepo, gitStatus, baseDir,
                currentDir>>

\* mutant of ErrorResult: what was accumulated is returned beside the error
ErrorResultPartial(err) == [paths |-> paths \cup dirs, isNil |-> FALSE, err |-> err]

\* lines 136 and 276: return nil, nil, err
ErrorResult(err) == [paths |-> {}, isNil |-> TRUE, err |-> err]

\* lines 133-148, 154, 191, 228: GetPlandexIgnore, then the producers start
Start ==
    /\ cpc = "start"
    /\ IF ignoreFile = "bad"
       THEN /\ ret' = ErrorResult("ignoreFile")
            /\ cpc' = "returned"
            /\ UNCHANGED <<ppc, numRoutines>>
       ELSE /\ numRoutines' = IF isGitRepo THEN 3 ELSE 1
            /\ ppc' = [p \in Producers |->
                         IF p = "walk" THEN "walk"
                         ELSE IF isGitRepo THEN "cmd" ELSE "idle"]
            /\ cpc' = "recv"
            /\ UNCHANGED ret
    /\ UNCHANGED <<paths, ignoredPaths, dirs, mu, files, idx, sendVal, recvI>>
    /\ UNCHANGED inputFrame

\* A send on the unbuffered errCh meets the receive of lines 273-278 in one
\* step. The sender returns, and its deferred mu.Unlock() runs if it holds mu.
\* The receiver returns the error, or counts the nil.
SendRecv(p) ==
    /\ ppc[p] = "send" /\ cpc = "recv"
    /\ ppc' = [ppc EXCEPT ![p] = "done"]
    /\ mu' = IF mu = p THEN "free" ELSE mu
    /\ IF sendVal[p] # "nil"
       THEN /\ ret' = ErrorResult(sendVal[p])
            /\ cpc' = "returned"
            /\ UNCHANGED recvI
       ELSE /\ recvI' = recvI + 1
            /\ cpc' = IF recvI + 1 < numRoutines THEN "recv" ELSE "merge"
            /\ UNCHANGED ret
    /\ UNCHANGED <<paths, ignoredPaths, dirs, files, idx, sendVal, numRoutines>>
    /\ UNCHANGED inputFrame

\* lines 280-284: the directories join the paths, and GetPaths returns them
MergeDirs ==
    /\ cpc = "merge"
    /\ paths' = paths \cup dirs
    /\ ret' = [paths |-> paths', isNil |-> FALSE, err |-> "nil"]
    /\ cpc' = "returned"
    /\ UNCHANGED <<ignoredPaths, dirs, mu, ppc, files, idx, sendVal, numRoutines,
                   recvI>>
    /\ UNCHANGED inputFrame

(***************************************************************************)
(* The listing producers (lines 155-188 and 192-224).                      *)
(***************************************************************************)
\* git ls-files, or git ls-files --others --exclude-standard, run in baseDir
RunCmd(p) ==
    /\ p \in Listings /\ ppc[p] = "cmd"
    /\ \/ /\ sendVal' = [sendVal EXCEPT ![p] = "cmd"]
          /\ ppc' = [ppc EXCEPT ![p] = "send"]
          /\ UNCHANGED files
       \/ /\ files' = [files EXCEPT ![p] = SplitOutput(FilesWithStatus(FileUniverse, p))]
          /\ ppc' = [ppc EXCEPT ![p] = "lock"]
          /\ UNCHANGED sendVal
    /\ UNCHANGED <<paths, ignoredPaths, dirs, mu, idx, cpc, numRoutines, recvI, ret>>
    /\ UNCHANGED inputFrame

\* mu.Lock()
Lock(p) ==
    /\ p \in Listings /\ ppc[p] = "lock"
    /\ mu = "free"
    /\ mu' = p
    /\ ppc' = [ppc EXCEPT ![p] = "loop"]
    /\ UNCHANGED <<paths, ignoredPaths, dirs, files, idx, sendVal, cpc, numRoutines,
                   recvI, ret>>
    /\ UNCHANGED inputFrame

\* the relative path of the file a listing producer stands at
RelFile(p) == Rel(currentDir, JoinPath(baseDir, files[p][idx[p]]))

\* one iteration of the loop over files; after the last, errCh <- nil is next
ListFile(p) ==
    /\ p \in Listings /\ ppc[p] = "loop"
    /\ LET relFile == RelFile(p)
           last == idx[p] = Len(files[p])
       IN IF relFile = "err"
          THEN /\ sendVal' = [sendVal EXCEPT ![p] = "rel"]
               /\ ppc' = [ppc EXCEPT ![p] = "send"]
               /\ UNCHANGED <<paths, ignoredPaths, idx>>
          ELSE /\ IF Ignored(relFile)
                  THEN ignoredPaths' = ignoredPaths \cup {relFile} /\ UNCHANGED paths
                  ELSE paths' = paths \cup {relFile} /\ UNCHANGED ignoredPaths
               /\ idx' = [idx EXCEPT ![p] = idx[p] + 1]
               /\ ppc' = [ppc EXCEPT ![p] = IF last THEN "send" ELSE "loop"]
               /\ UNCHANGED sendVal
    /\ UNCHANGED <<dirs, mu, files, cpc, numRoutines, recvI, ret>>
    /\ UNCHANGED inputFrame

(***************************************************************************)
(* The walk producer (lines 229-271).                                      *)
(***************************************************************************)
\* the relative path of the entry the walk stands at
RelPath == Rel(currentDir, JoinPath(baseDir, WalkEntries[idx["walk"]].path))

\* the walk ends: the next step sends nil
WalkGoto(i) ==
    /\ idx' = [idx EXCEPT !["walk"] = i]
    /\ ppc' = [ppc EXCEPT !["walk"] = IF i > Len(WalkEntries) THEN "send" ELSE "walk"]

\* the walk function returns an error: filepath.Walk returns it, it is sent
WalkFails(reason) ==
    /\ sendVal' = [sendVal EXCEPT !["walk"] = reason]
    /\ ppc' = [ppc EXCEPT !["walk"] = "send"]
    /\ UNCHANGED <<paths, ignoredPaths, dirs, idx>>

\* lines 235-246: a directory
WalkDir ==
    IF RelPath = "err" THEN WalkFails("rel")
    ELSE IF Ignored(RelPath)
    THEN /\ ignoredPaths' = ignoredPaths \cup {RelPath}
         /\ WalkGoto(SkipDir(idx["walk"]))
         /\ UNCHANGED <<paths, dirs, sendVal>>
    ELSE /\ dirs' = dirs \cup {RelPath}
         /\ WalkGoto(idx["walk"] + 1)
         /\ UNCHANGED <<paths, ignoredPaths, sendVal>>

\* mutant of WalkFile: the file of a directory without version control is
\* accepted without asking the matcher
WalkFileNoIgnore ==
    IF isGitRepo
    THEN WalkGoto(idx["walk"] + 1) /\ UNCHANGED <<paths, ignoredPaths, dirs, sendVal>>
    ELSE IF RelPath = "err" THEN WalkFails("rel")
    ELSE /\ paths' = paths \cup {RelPath}
         /\ WalkGoto(idx["walk"] + 1)
         /\ UNCHANGED <<ignoredPaths, dirs, sendVal>>

\* lines 247-262: a file
WalkFile ==
    IF isGitRepo
    THEN WalkGoto(idx["walk"] + 1) /\ UNCHANGED <<paths, ignoredPaths, dirs, sendVal>>
    ELSE IF RelPath = "err" THEN WalkFails("rel")
    ELSE /\ IF Ignored(RelPath)
            THEN ignoredPaths' = ignoredPaths \cup {RelPath} /\ UNCHANGED paths
            ELSE paths' = paths \cup {RelPath} /\ UNCHANGED ignoredPaths
         /\ WalkGoto(idx["walk"] + 1)
         /\ UNCHANGED <<dirs, sendVal>>

\* lines 230-263: the walk function is called for the next entry, with the error
\* of reading it or without
WalkEntry ==
    /\ ppc["walk"] = "walk"
    /\ \/ WalkFails("walk")
       \/ IF WalkEntries[idx["walk"]].isDir THEN WalkDir ELSE WalkFile
    /\ UNCHANGED <<mu, files, cpc, numRoutines, recvI, ret>>
    /\ UNCHANGED inputFrame

\* ignoredPaths is written by the walk without mu (line 242) while a listing
\* producer writes it under mu (lines 180, 216). When both stand at such a write
\* the Go runtime may stop the process with "fatal error: concurrent map
\* writes", or both writes go on and one of them may be lost.
ConcurrentMapWrites ==
    /\ ppc["walk"] = "walk"
    /\ WalkEntries[idx["walk"]].isDir
    /\ RelPath # "err" /\ Ignored(RelPath)
    /\ \E p \in Listings :
          /\ ppc[p] = "loop"
          /\ RelFile(p) # "err" /\ Ignored(RelFile(p))
          /\ \/ /\ cpc' = "fatal"
                /\ ppc' = [q \in Producers |-> "fatal"]
                /\ UNCHANGED <<ignoredPaths, idx>>
             \/ \E kept \in {RelPath, RelFile(p)} :
                   LET i == SkipDir(idx["walk"])
                       last == idx[p] = Len(files[p])
                   IN /\ ignoredPaths' = ignoredPaths \cup {kept}
                      /\ idx' = [idx EXCEPT !["walk"] = i, ![p] = idx[p] + 1]
                      /\ ppc' = [ppc EXCEPT
                                   !["walk"] = IF i > Len(WalkEntries) THEN "send"
                                               ELSE "walk",
                                   ![p] = IF last THEN "send" ELSE "loop"]
                      /\ UNCHANGED cpc
    /\ UNCHANGED <<paths, dirs, mu, files, sendVal, numRoutines, recvI, ret>>
    /\ UNCHANGED inputFrame

PathsNext ==
    \/ Start
    \/ \E p \in Producers : SendRecv(p)
    \/ MergeDirs
    \/ \E p \in Listings : RunCmd(p)
    \/ \E p \in Listings : Lock(p)
    \/ \E p \in Listings : ListFile(p)
    \/ WalkEntry
    \/ ConcurrentMapWrites

(***************************************************************************)
(* GetBaseDirForFilePaths.                                                 *)
(***************************************************************************)
\* the most paths GetBaseDirForFilePaths is given
MaxPaths == 3

\* the working directory of the process, /g/p/w
Cwd == [abs |-> TRUE, path |-> <<"g", "p", "w">>]

\* the empty string, as a directory: a package variable not yet set
Unset == [abs |-> FALSE, path |-> <<>>]

\* The paths are sequences of characters:
\* "../a/b", "../../c", "../../../..", "d/e", "d/..", "..", "..d" and "".
FilePathUniverse ==
    { <<".", ".", "/", "a", "/", "b">>,
      <<".", ".", "/", ".", ".", "/", "c">>,
      <<".", ".", "/", ".", ".", "/", ".", ".", "/", ".", ".">>,
      <<"d", "/", "e">>,
      <<"d", "/", ".", ".">>,
      <<".", ".">>,
      <<".", ".", "d">>,
      <<>> }

RECURSIVE Split(_, _)
\* strings.Split(s, sep) for a separator of one character: the pieces between
\* the separators, one more than there are separators
Split(s, sep) ==
    IF \A i \in 1..Len(s) : s[i] # sep THEN <<s>>
    ELSE LET i == CHOOSE j \in 1..Len(s) :
                     s[j] = sep /\ \A k \in 1..(j - 1) : s[k] # sep
         IN <<SubSeq(s, 1, i - 1)>> \o Split(SubSeq(s, i + 1, Len(s)), sep)

\* filepath.Dir: the parent of an absolute directory, / for /, and "." for ""
\* and for "."
Dir(d) ==
    IF d.abs
    THEN [d EXCEPT !.path = IF d.path = <<>> THEN <<>>
                             ELSE SubSeq(d.path, 1, Len(d.path) - 1)]
    ELSE [abs |-> FALSE, path |-> <<".">>]

RECURSIVE DirTimes(_, _)
\* currentDir after n rounds of line 423
DirTimes(d, n) == IF n = 0 THEN d ELSE DirTimes(Dir(d), n - 1)

RECURSIVE AllDotDots(_)
\* mutant of LeadingDotDots: every ".." piece is counted, leading or not
AllDotDots(pathSplit) ==
    IF pathSplit = <<>> THEN 0
    ELSE (IF Head(pathSplit) = <<".", ".">> THEN 1 ELSE 0) + AllDotDots(Tail(pathSplit))

RECURSIVE LeadingDotDots(_)
\* lines 419-427: n, the pieces ".." before the first other piece
LeadingDotDots(pathSplit) ==
    IF pathSplit = <<>> \/ Head(pathSplit) # <<".", ".">> THEN 0
    ELSE 1 + LeadingDotDots(Tail(pathSplit))

\* lines 438-450: findPlandex(Cwd), the marker directory or ""
findPlandex == IF cwdMarker THEN JoinPath(Cwd, <<".plandex">>) ELSE Unset

BaseIdle ==
    /\ ProjectRoot = Unset
    /\ PlandexDir = Unset
    /\ cwdMarker = FALSE
    /\ focRet = [dir |-> Unset, created |-> FALSE, err |-> "none"]
    /\ filePaths = <<>>
    /\ gbPc = "idle"
    /\ gbI = 1
    /\ dirsUp = 0
    /\ gbBaseDir = Unset
    /\ gbRet = "none"

\* lines 66-69: init() has looked for the marker directory in Cwd and has set
\* ProjectRoot when it found one; GetBaseDirForFilePaths is about to be called
BaseInit ==
    /\ cwdMarker \in BOOLEAN
    /\ PlandexDir = findPlandex
    /\ ProjectRoot = IF PlandexDir # Unset THEN Cwd ELSE Unset
    /\ focRet = [dir |-> Unset, created |-> FALSE, err |-> "none"]
    /\ filePaths \in UNION {[1..n -> FilePathUniverse] : n \in 0..MaxPaths}
    /\ gbPc = "start"
    /\ gbI = 1
    /\ dirsUp = 0
    /\ gbBaseDir = Unset
    /\ gbRet = "none"

\* lines 72-95: FindOrCreatePlandex, run by a command before it asks for the
\* base directory. The marker directory is found, or made with os.Mkdir, which
\* can fail; ProjectRoot becomes Cwd unless it failed.
FindOrCreatePlandex ==
    /\ gbPc = "start"
    /\ IF findPlandex # Unset
       THEN /\ PlandexDir' = findPlandex
            /\ ProjectRoot' = Cwd
            /\ focRet' = [dir |-> PlandexDir', created |-> FALSE, err |-> "nil"]
            /\ UNCHANGED cwdMarker
       ELSE \/ /\ PlandexDir' = findPlandex
               /\ focRet' = [dir |-> Unset, created |-> FALSE, err |-> "mkdir"]
               /\ UNCHANGED <<ProjectRoot, cwdMarker>>
            \/ /\ cwdMarker' = TRUE
               /\ PlandexDir' = JoinPath(Cwd, <<".plandex">>)
               /\ ProjectRoot' = Cwd
               /\ focRet' = [dir |-> PlandexDir', created |-> TRUE, err |-> "nil"]
    /\ UNCHANGED <<filePaths, gbPc, gbI, dirsUp, gbBaseDir, gbRet>>
    /\ UNCHANGED <<loadVars, pathVars, projVars>>

\* lines 410-412: baseDir := ProjectRoot; dirsUp := 0
BaseDirStart ==
    /\ gbPc = "start"
    /\ gbBaseDir' = ProjectRoot
    /\ dirsUp' = 0
    /\ gbPc' = "loop"
    /\ UNCHANGED <<ProjectRoot, PlandexDir, cwdMarker, focRet, filePaths, gbI, gbRet>>
    /\ UNCHANGED <<loadVars, pathVars, projVars>>

\* lines 414-433: one round of the loop over paths
BaseDirPath ==
    /\ gbPc = "loop"
    /\ gbI <= Len(filePaths)
    /\ LET pathSplit == Split(filePaths[gbI], "/")
           n == LeadingDotDots(pathSplit)
           currentDirUp == DirTimes(ProjectRoot, n)
       IN IF n > dirsUp
          THEN dirsUp' = n /\ gbBaseDir' = currentDirUp
          ELSE UNCHANGED <<dirsUp, gbBaseDir>>
    /\ gbI' = gbI + 1
    /\ UNCHANGED <<ProjectRoot, PlandexDir, cwdMarker, focRet, filePaths, gbPc,
                   gbRet>>
    /\ UNCHANGED <<loadVars, pathVars, projVars>>

\* line 435
BaseDirReturn ==
    /\ gbPc = "loop"
    /\ gbI > Len(filePaths)
    /\ gbRet' = gbBaseDir
    /\ gbPc' = "returned"
    /\ UNCHANGED <<ProjectRoot, PlandexDir, cwdMarker, focRet, filePaths, gbI,
                   dirsUp, gbBaseDir>>
    /\ UNCHANGED <<loadVars, pathVars, projVars>>

BaseNext == FindOrCreatePlandex \/ BaseDirStart \/ BaseDirPath \/ BaseDirReturn

(***************************************************************************)
(* The project searches: GetChildProjectIdsWithPaths and                   *)
(* GetParentProjectIdsWithPaths.                                           *)
(***************************************************************************)
\* the most entries under Cwd for which the file system gives an error
MaxErrors == 1

\* The tree under Cwd in the order filepath.Walk visits it; the root comes first.
\* key names the directory in dirStatus.
ChildEntries ==
    << [path |-> <<>>, isDir |-> TRUE, key |-> "w"],
       [path |-> <<".h">>, isDir |-> TRUE, key |-> "h"],
       [path |-> <<".h", "q">>, isDir |-> TRUE, key |-> "q"],
       [path |-> <<"a">>, isDir |-> TRUE, key |-> "a"],
       [path |-> <<"a", "f">>, isDir |-> FALSE, key |-> "f"],
       [path |-> <<"a", "s">>, isDir |-> TRUE, key |-> "s"],
       [path |-> <<"b">>, isDir |-> TRUE, key |-> "b"] >>

\* the directories above Cwd that are not /, by the key of each
Ancestors == {"p", "g"}

\* the directories whose status a search may ask for
DirKeys == {"w", "h", "q", "a", "s", "b"} \cup Ancestors

\* "lstatPerm", "lstatIO": os.Lstat of the entry fails, with a permission error
\* or another one; "readdirPerm", "readdirIO": reading the directory fails
EntryErrors == {"none", "lstatPerm", "lstatIO", "readdirPerm", "readdirIO"}

\* strings.HasPrefix(info.Name(), "."): the name of the root is w
HasDotPrefix(i) ==
    ChildEntries[i].path # <<>> /\ ChildEntries[i].path[Len(ChildEntries[i].path)] = ".h"

\* the first entry after i outside the directory at i (filepath.SkipDir)
ChildSkipDir(i) ==
    LET after == {j \in (i + 1)..Len(ChildEntries) :
                     ~IsPrefix(ChildEntries[i].path, ChildEntries[j].path)}
    IN IF after = {} THEN Len(ChildEntries) + 1
       ELSE CHOOSE j \in after : \A k \in after : j <= k

\* findPlandex(dir) # "": the marker directory is there
FoundPlandex(key) == dirStatus[key] # "none"

\* lines 312-313 and 367-368: os.Stat of filepath.Join(plandexDir, "project.json")
\* succeeds. Without a marker plandexDir is "" and the joined path is the
\* relative project.json, a file of the working directory.
SettingsFound(key) ==
    IF FoundPlandex(key) THEN dirStatus[key] = "project" ELSE cwdSettings

\* the pair appended for a directory: the settings read are its own, or those
\* of the file in Cwd
Pair(key) == [dir |-> key, id |-> IF FoundPlandex(key) THEN key ELSE "cwd"]

ProjIdle ==
    /\ dirStatus = [k \in DirKeys |-> "none"]
    /\ cwdSettings = FALSE
    /\ entryErr = [i \in 1..Len(ChildEntries) |-> "none"]
    /\ ctxDone = FALSE
    /\ idsAtDeadline = <<>>
    /\ childPc = "idle"
    /\ cIdx = 1
    /\ childProjectIds = <<>>
    /\ childRet = "none"
    /\ parentPc = "idle"
    /\ parentDir = Cwd
    /\ parentProjectIds = <<>>
    /\ parentRet = "none"

\* line 336: a call of GetChildProjectIdsWithPaths
ChildInit ==
    /\ dirStatus \in [DirKeys -> {"none", "marker", "project"}]
    /\ \A k \in Ancestors \cup {"w", "h"} : dirStatus[k] = "none"
    /\ dirStatus["q"] = "project"
    /\ cwdSettings \in BOOLEAN
    /\ entryErr \in [1..Len(ChildEntries) -> EntryErrors]
    /\ Cardinality({i \in 1..Len(ChildEntries) : entryErr[i] # "none"}) <= MaxErrors
    /\ \A i \in 1..Len(ChildEntries) :
          ~ChildEntries[i].isDir => entryErr[i] \notin {"readdirPerm", "readdirIO"}
    /\ ctxDone = FALSE
    /\ idsAtDeadline = <<>>
    /\ childPc = "fn"
    /\ cIdx = 1
    /\ childProjectIds = <<>>
    /\ childRet = "none"
    /\ parentPc = "idle"
    /\ parentDir = Cwd
    /\ parentProjectIds = <<>>
    /\ parentRet = "none"

\* lines 307-308: a call of GetParentProjectIdsWithPaths
ParentInit ==
    /\ dirStatus \in [DirKeys -> {"none", "marker", "project"}]
    /\ \A k \in DirKeys \ Ancestors : dirStatus[k] = "none"
    /\ cwdSettings \in BOOLEAN
    /\ entryErr = [i \in 1..Len(ChildEntries) |-> "none"]
    /\ ctxDone = FALSE
    /\ idsAtDeadline = <<>>
    /\ childPc = "idle"
    /\ cIdx = 1
    /\ childProjectIds = <<>>
    /\ childRet = "none"
    /\ parentPc = "loop"
    /\ parentDir = Dir(Cwd)
    /\ parentProjectIds = <<>>
    /\ parentRet = "none"

(***************************************************************************)
(* GetChildProjectIdsWithPaths (lines 335-396).                            *)
(***************************************************************************)
projInputs == <<dirStatus, cwdSettings, entryErr>>

parentFrame == <<parentPc, parentDir, parentProjectIds, parentRet>>

childFrame == <<ctxDone, idsAtDeadline, childPc, cIdx, childProjectIds, childRet>>

\* the timer of ctx fires: it may at any moment of the walk
DeadlineFires ==
    /\ childPc \in {"fn", "find"}
    /\ ~ctxDone
    /\ ctxDone' = TRUE
    /\ idsAtDeadline' = childProjectIds
    /\ UNCHANGED <<childPc, cIdx, childProjectIds, childRet>>
    /\ UNCHANGED <<loadVars, pathVars, baseVars, projInputs, parentFrame>>

\* mutant of TimeoutResult: the timeout is reported as any other walk error
TimeoutResultAsError == [ids |-> "nil", err |-> "walk", via |-> "timeout"]

\* lines 388-389: the walk ended with "context timeout"
TimeoutResult == [ids |-> childProjectIds, err |-> "nil", via |-> "timeout"]

\* lines 392: the walk ended with another error
WalkErrorResult(err) == [ids |-> "nil", err |-> err, via |-> "error"]

\* a panic ends the process; nothing is returned
Panic(reason) ==
    /\ childPc' = "panic"
    /\ childRet' = [ids |-> "nil", err |-> reason, via |-> "panic"]
    /\ UNCHANGED <<cIdx, childProjectIds>>

\* the walk function returns a non-nil error other than SkipDir: filepath.Walk
\* returns it and lines 387-393 make the result of the call
WalkStops(result) ==
    /\ childPc' = "returned"
    /\ childRet' = result
    /\ UNCHANGED <<cIdx, childProjectIds>>

\* the walk function returns nil or SkipDir: filepath.Walk goes on with entry i
WalkOn(i) ==
    /\ cIdx' = i
    /\ childPc' = "fn"
    /\ UNCHANGED <<childProjectIds, childRet>>

\* lines 339-364: filepath.Walk calls the walk function for the entry at cIdx.
\* An os.Lstat error comes without info, a directory read error with it.
WalkFn ==
    /\ childPc = "fn"
    /\ cIdx <= Len(ChildEntries)
    /\ LET err == entryErr[cIdx]
           isDir == ChildEntries[cIdx].isDir
       IN IF err = "lstatPerm" THEN Panic("nilInfo")
          ELSE IF err = "readdirPerm" THEN WalkOn(ChildSkipDir(cIdx))
          ELSE IF err \in {"lstatIO", "readdirIO"} THEN WalkStops(WalkErrorResult("walk"))
          ELSE IF HasDotPrefix(cIdx)
               THEN WalkOn(IF isDir THEN ChildSkipDir(cIdx) ELSE cIdx + 1)
          ELSE IF ctxDone THEN WalkStops(TimeoutResult)
          ELSE IF isDir /\ cIdx # 1
               THEN childPc' = "find" /\ UNCHANGED <<cIdx, childProjectIds, childRet>>
               ELSE WalkOn(cIdx + 1)
    /\ UNCHANGED <<ctxDone, idsAtDeadline>>
    /\ UNCHANGED <<loadVars, pathVars, baseVars, projInputs, parentFrame>>

\* lines 365-384: the directory at cIdx is asked for marker and settings
FindChildProject ==
    /\ childPc = "find"
    /\ LET key == ChildEntries[cIdx].key
       IN IF SettingsFound(key)
          THEN \/ /\ childProjectIds' = Append(childProjectIds, Pair(key))
                  /\ cIdx' = cIdx + 1
                  /\ childPc' = "fn"
                  /\ UNCHANGED childRet
               \/ WalkStops(WalkErrorResult("read"))
               \/ Panic("unmarshal")
          ELSE WalkOn(cIdx + 1)
    /\ UNCHANGED <<ctxDone, idsAtDeadline>>
    /\ UNCHANGED <<loadVars, pathVars, baseVars, projInputs, parentFrame>>

\* line 395: filepath.Walk returned nil
ChildReturn ==
    /\ childPc = "fn"
    /\ cIdx > Len(ChildEntries)
    /\ childPc' = "returned"
    /\ childRet' = [ids |-> childProjectIds, err |-> "nil", via |-> "end"]
    /\ UNCHANGED <<ctxDone, idsAtDeadline, cIdx, childProjectIds>>
    /\ UNCHANGED <<loadVars, pathVars, baseVars, projInputs, parentFrame>>

(***************************************************************************)
(* GetParentProjectIdsWithPaths (lines 306-333).                           *)
(***************************************************************************)
\* lines 310-330: one round of the loop, for the directory parentDir
ParentCheck ==
    /\ parentPc = "loop"
    /\ parentDir.path # <<>>
    /\ LET key == parentDir.path[Len(parentDir.path)]
       IN IF SettingsFound(key)
          THEN \/ /\ parentProjectIds' = Append(parentProjectIds, Pair(key))
                  /\ parentDir' = Dir(parentDir)
                  /\ UNCHANGED <<parentPc, parentRet>>
               \/ /\ parentRet' = [ids |-> "nil", err |-> "read"]
                  /\ parentPc' = "returned"
                  /\ UNCHANGED <<parentDir, parentProjectIds>>
               \/ /\ parentPc' = "panic"
                  /\ UNCHANGED <<parentDir, parentProjectIds, parentRet>>
          ELSE /\ parentDir' = Dir(parentDir)
               /\ UNCHANGED <<parentPc, parentProjectIds, parentRet>>
    /\ UNCHANGED <<loadVars, pathVars, baseVars, projInputs, childFrame>>

\* line 332: currentDir is /
ParentReturn ==
    /\ parentPc = "loop"
    /\ parentDir.path = <<>>
    /\ parentRet' = [ids |-> parentProjectIds, err |-> "nil"]
    /\ parentPc' = "returned"
    /\ UNCHANGED <<parentDir, parentProjectIds>>
    /\ UNCHANGED <<loadVars, pathVars, baseVars, projInputs, childFrame>>

ProjNext ==
    \/ DeadlineFires
    \/ WalkFn
    \/ FindChildProject
    \/ ChildReturn
    \/ ParentCheck
    \/ ParentReturn

(***************************************************************************)
(* The specifications.                                                     *)
(***************************************************************************)
LoadIdle ==
    /\ resources = <<>>
    /\ params = [Note |-> FALSE, NamesOnly |-> FALSE]
    /\ stdin = "tty"
    /\ mainPc = "idle"
    /\ outcome = "idle"
    /\ reportedTotal = -1
    /\ planState = [ContextTokens |-> 0, ContextUpdatableTokens |-> 0]
    /\ totalTokens = 0
    /\ totalUpdatableTokens = 0
    /\ tokensAdded = 0
    /\ totalTokensMutex = Free
    /\ contextParts = <<>>
    /\ spawned = {}
    /\ wpc = [w \in Workers |-> "idle"]
    /\ numTokens = [w \in Workers |-> 0]
    /\ flattenedPaths = <<>>
    /\ hasPipeData = FALSE
    /\ wrPc = [x \in Writers |-> "idle"]
    /\ wrErr = [x \in Writers |-> "nil"]
    /\ errCh = <<>>
    /\ joinI = 0
    /\ storedContext = <<>>
    /\ storedPlanState = [ContextTokens |-> 0, ContextUpdatableTokens |-> 0]
    /\ gitLog = <<>>
    /\ startPlanState = storedPlanState

\* a call of MustLoadContext
Init == LoadInit /\ PathsIdle /\ cpc = "idle" /\ BaseIdle /\ ProjIdle

Next == LoadNext

Spec == Init /\ [][Next]_vars

\* a call of GetPaths
InitPaths == PathsInit /\ LoadIdle /\ BaseIdle /\ ProjIdle

SpecPaths == InitPaths /\ [][PathsNext]_vars

\* Fair scheduling of GetPaths: its own goroutine and each producer goroutine
\* take the step they stand at when it stays possible; a send and its receive
\* (lines 162-270 and 274) happen when both sides stand ready
PathsFairness ==
    /\ WF_vars(Start \/ MergeDirs)
    /\ \A p \in Producers : WF_vars(SendRecv(p))
    /\ \A p \in Listings : WF_vars(RunCmd(p) \/ Lock(p) \/ ListFile(p))
    /\ WF_vars(WalkEntry \/ ConcurrentMapWrites)

\* GetPaths under fair scheduling, with commands and walk that terminate
SpecPathsLive == InitPaths /\ [][PathsNext]_vars /\ PathsFairness

\* a call of GetBaseDirForFilePaths
InitBase == BaseInit /\ LoadIdle /\ PathsIdle /\ cpc = "idle" /\ ProjIdle

SpecBase == InitBase /\ [][BaseNext]_vars

\* a call of GetChildProjectIdsWithPaths or of GetParentProjectIdsWithPaths
InitProj ==
    /\ ChildInit \/ ParentInit
    /\ LoadIdle /\ PathsIdle /\ cpc = "idle" /\ BaseIdle

SpecProj == InitProj /\ [][ProjNext]_vars

(***************************************************************************)
(* Properties of MustLoadContext.                                          *)
(***************************************************************************)
\* no persistence step has been taken in this run
NoPersistence ==
    /\ \A x \in Writers : wrPc[x] = "idle"
    /\ storedContext = <<>>
    /\ storedPlanState = startPlanState
    /\ gitLog = <<>>

\* workers that have executed totalTokens += numTokens
PastTotal ==
    {w \in spawned :
        wpc[w] \in {"addAdded", "addUpdatable", "check", "exit", "append", "done"}}

\* workers that have executed tokensAdded += numTokens
PastAdded ==
    {w \in spawned : \/ wpc[w] \in {"check", "exit", "append", "done"}
                     \/ wpc[w] = "addUpdatable" /\ Kind(w) \in {"file", "url"}}

\* workers that have left the critical section
Counted == {w \in spawned : wpc[w] \in {"append", "done"}}

\* the reasons with which a failing worker, or the path expansion, ends the call
WorkerFailures ==
    {"getNumTokens", "readFile", "fetchURL", "fileName", "parseInputPaths"}

\* C1: once the running total exceeds maxTokens the call never returns and no
\* persistence step (unit append, PlanState write, audit entry) is taken; so a
\* ContextTokens value handed to SetPlanState or written is at most maxTokens.
BudgetAbortNoPersistence ==
    /\ totalTokens > maxTokens => NoPersistence /\ outcome # "returned"
    /\ outcome = "budget" => totalTokens > maxTokens
    /\ wrPc["state"] \in {"updatable", "call", "send", "done"} =>
          planState.ContextTokens <= maxTokens
    /\ storedPlanState # startPlanState => storedPlanState.ContextTokens <= maxTokens

\* C1 witness: the budget abort is hit by accumulation, after another worker
\* has been counted and has appended its unit, and nothing is persisted.
BudgetAbortWitness ==
    /\ outcome = "budget"
    /\ Len(contextParts) >= 1
    /\ NoPersistence

\* C2: after the totals are read, totalTokens is the initial ContextTokens plus
\* the counts of exactly the workers that have executed their increment, and
\* tokensAdded is the sum of the counts of those that have executed theirs;
\* whenever the mutex is free both sets are the workers that left the critical
\* section.
BudgetMonotonicity ==
    mainPc # "getPlanState" =>
        /\ totalTokens = startPlanState.ContextTokens + SumTokens(PastTotal)
        /\ tokensAdded = SumTokens(PastAdded)
        /\ totalTokensMutex = Free => PastTotal = Counted /\ PastAdded = Counted

\* C2 witness: two workers have been counted, each with a positive count.
BudgetMonotonicityWitness ==
    /\ Cardinality(Counted) = 2
    /\ \A w \in Counted : numTokens[w] > 0
    /\ tokensAdded = SumTokens(Counted)
    /\ totalTokens = maxTokens

\* C3: a budget abort happens in the check of the worker that holds the totals
\* mutex, the total it reports is the running total with that worker's count
\* in it, and the total before its increment was within the ceiling; a single
\* unit of maxTokens + 1 tokens on an initial total of 0 never gets past the
\* check and the abort reports maxTokens + 1.
AbortBoundary ==
    /\ outcome = "budget" => reportedTotal # -1
    /\ reportedTotal # -1 =>
          /\ totalTokensMutex \in spawned
          /\ wpc[totalTokensMutex] = "exit"
          /\ totalTokensMutex \in PastTotal
          /\ reportedTotal = totalTokens
          /\ reportedTotal = startPlanState.ContextTokens + SumTokens(PastTotal)
          /\ reportedTotal > maxTokens
          /\ reportedTotal - numTokens[totalTokensMutex] <= maxTokens
    /\ \A w \in spawned :
          (/\ startPlanState.ContextTokens = 0
           /\ spawned = {w}
           /\ wpc[w] # FirstPc(Kind(w))
           /\ numTokens[w] = maxTokens + 1) =>
              /\ wpc[w] \notin {"append", "done"}
              /\ outcome \notin {"returned", "noContext"}
              /\ reportedTotal # -1 => reportedTotal = maxTokens + 1

\* C3 witness: the single unit of maxTokens + 1 tokens has aborted the call.
AbortBoundaryWitness ==
    /\ outcome = "budget"
    /\ Cardinality(spawned) = 1
    /\ startPlanState.ContextTokens = 0
    /\ reportedTotal = maxTokens + 1

\* C4: once read, totalTokens >= totalUpdatableTokens >= 0 in every state, and
\* the PlanState handed to SetPlanState and the one persisted keep that order
\* and are each at least the value read at the start.
CountersOrdered ==
    /\ mainPc # "getPlanState" =>
          /\ totalTokens >= totalUpdatableTokens
          /\ totalUpdatableTokens >= 0
          /\ totalTokens >= startPlanState.ContextTokens
          /\ totalUpdatableTokens >= startPlanState.ContextUpdatableTokens
    /\ \A ps \in {planState, storedPlanState} :
          mainPc # "getPlanState" =>
            /\ ps.ContextTokens >= ps.ContextUpdatableTokens
            /\ ps.ContextUpdatableTokens >= 0
            /\ ps.ContextTokens >= startPlanState.ContextTokens
            /\ ps.ContextUpdatableTokens >= startPlanState.ContextUpdatableTokens

\* C4 witness: counters that grew, the updatable one by less, were written.
CountersOrderedWitness ==
    /\ storedPlanState # startPlanState
    /\ storedPlanState.ContextUpdatableTokens > startPlanState.ContextUpdatableTokens
    /\ storedPlanState.ContextTokens - startPlanState.ContextTokens
          > storedPlanState.ContextUpdatableTokens
              - startPlanState.ContextUpdatableTokens

\* C5: when the call has ended on a worker failure (token counting, file read,
\* URL fetch, file-name derivation, path expansion) no persistence step has
\* been taken.
WorkerFailureNoPersistence ==
    outcome \in WorkerFailures =>
        NoPersistence /\ mainPc \in {"stdin", "resources", "wait"}

\* C5 witness: a URL fetch failed after another worker had added its count and
\* appended its unit.
WorkerFailureWitness ==
    /\ outcome = "fetchURL"
    /\ tokensAdded > 0
    /\ Len(contextParts) > 0

\* C6: past the barrier an empty unit list ends the call with the "nothing
\* loaded" outcome, which is none of the failure outcomes, and without any
\* write; a call with no note, no piped data and no resources starts no worker
\* and, once stdin is read, can only end that way.
EmptyInput ==
    /\ (mainPc \notin {"getPlanState", "note", "stdin", "resources", "wait"}
          /\ Len(contextParts) = 0) =>
            /\ mainPc = "empty"
            /\ outcome \in {"running", "noContext"}
            /\ NoPersistence
    /\ outcome = "noContext" =>
          /\ Len(contextParts) = 0
          /\ NoPersistence
          /\ outcome \notin WorkerFailures \cup {"budget", "writeContext", "gitCommit"}
    /\ (~params.Note /\ stdin # "pipe" /\ Len(resources) = 0) =>
          /\ spawned = {}
          /\ mainPc \in {"resources", "wait", "empty"} =>
                outcome \in {"running", "noContext"}

\* C6 witness: resources were given, full-content mode expanded them to no
\* file, and the call ended with "nothing loaded".
EmptyInputWitness ==
    /\ outcome = "noContext"
    /\ Len(resources) > 0
    /\ NoPersistence

\* C7: an audit entry exists only when both persistence goroutines have
\* finished without error and the units and the counters are persisted.
AuditAfterBothWrites ==
    (gitLog # <<>> \/ mainPc \in {"commit", "returned"}) =>
        /\ \A x \in Writers : wrPc[x] = "done" /\ wrErr[x] = "nil"
        /\ storedContext = contextParts
        /\ storedPlanState = NewPlanState

\* C7 witness: the audit entry has been recorded.
AuditWitness == Len(gitLog) = 1 /\ outcome = "returned"

\* C8: when the failure of a write is reported, both writes have finished.
JoinsBothBeforeReporting ==
    outcome = "writeContext" => \A x \in Writers : wrPc[x] \in {"send", "done"}
(***************************************************************************)
(* Properties of GetPaths.                                                 *)
(***************************************************************************)
\* GetPaths returned a path set
ReturnedPaths == cpc = "returned" /\ ret.err = "nil"

\* the relative path of an entry of the tree
RelOf(path) == Rel(currentDir, JoinPath(baseDir, path))

\* the entries of the tree that lie under the directory at path
Descendants(path) ==
    {WalkEntries[j].path : j \in {k \in 1..Len(WalkEntries) :
        /\ IsPrefix(path, WalkEntries[k].path)
        /\ WalkEntries[k].path # path}}

\* C9: Ignore correctness. No path the matcher of .plandexignore matches is
\* accepted by a producer or is in the set GetPaths returns, whether it comes from
\* the tracked listing, the untracked listing or the walk.
IgnoreCorrectness ==
    /\ \A p \in paths \cup dirs : ~Ignored(p)
    /\ ReturnedPaths => \A p \in ret.paths : ~Ignored(p)

\* C9 witness: with version control, a/b.log was listed, matched and kept out of
\* the returned set, which holds x.txt and the directory a.
IgnoreCorrectnessWitness ==
    /\ ReturnedPaths
    /\ isGitRepo
    /\ currentDir = baseDir
    /\ Ignored(<<"a", "b.log">>)
    /\ <<"a", "b.log">> \in ignoredPaths
    /\ {<<"x.txt">>, <<"a">>} \subseteq ret.paths

\* C10: Directory pruning. When the matcher matches a directory, the returned set
\* holds no path of the tree under that directory.
DirectoryPruning ==
    ReturnedPaths =>
        \A j \in 1..Len(WalkEntries) :
            (WalkEntries[j].isDir /\ Ignored(RelOf(WalkEntries[j].path)))
                => \A f \in Descendants(WalkEntries[j].path) : RelOf(f) \notin ret.paths

\* C15: Names-only display names. The DirectoryTree unit of the input path "."
\* is named "cwd" and that of ".." is named "parent"; its FilePath is the input
\* path.
NamesOnlyDisplayNames ==
    \A i \in 1..Len(contextParts) :
        contextParts[i].Type = "tree" =>
            contextParts[i].Name = TreeName(contextParts[i].FilePath)

\* the call is past wg.Wait()
PastBarrier == mainPc \in {"empty", "join", "commit", "returned"}

\* the workers whose unit is of a kind that can be updated from its source
UpdatableWorkers == {w \in spawned : Kind(w) \in {"file", "tree", "url"}}

\* C16: Order independence. Past the barrier the three totals are the initial
\* values plus the sums over all dispatched units, whatever the order in which the
\* workers ran; when the initial total plus that sum exceeds maxTokens the
\* workers cannot all pass their check and the barrier is never passed.
OrderIndependence ==
    /\ PastBarrier =>
          /\ tokensAdded = SumTokens(spawned)
          /\ totalTokens = startPlanState.ContextTokens + SumTokens(spawned)
          /\ totalUpdatableTokens =
                startPlanState.ContextUpdatableTokens + SumTokens(UpdatableWorkers)
          /\ totalTokens <= maxTokens
    /\ (mainPc = "wait" /\ Counted = spawned) =>
          startPlanState.ContextTokens + SumTokens(spawned) <= maxTokens
    /\ startPlanState.ContextTokens + SumTokens(Counted) > maxTokens =>
          ~PastBarrier /\ NoPersistence

\* C16 witness: the workers finished in the order opposite to their dispatch (the
\* URL's unit was appended before the note's), and the persisted totals are the
\* sums.
OrderIndependenceWitness ==
    /\ outcome = "returned"
    /\ Len(contextParts) = 2
    /\ contextParts[1].Type = "url" /\ contextParts[2].Type = "note"
    /\ \A i \in 1..2 : contextParts[i].NumTokens = 1
    /\ storedPlanState.ContextTokens = startPlanState.ContextTokens + 2

\* the workers of the units in a list
PartWorkers(s) == {s[i].Worker : i \in 1..Len(s)}

\* C17: Barrier before persistence. When a persistence write has started, every
\* dispatched worker is done, the unit list has exactly one unit per dispatched
\* worker, and its token counts sum to tokensAdded; the list written is that list.
BarrierBeforePersistence ==
    /\ (\E x \in Writers : wrPc[x] # "idle") =>
          /\ \A w \in spawned : wpc[w] = "done"
          /\ Len(contextParts) = Cardinality(spawned)
          /\ PartWorkers(contextParts) = spawned
          /\ SumParts(contextParts) = tokensAdded
    /\ storedContext # <<>> => storedContext = contextParts

\* C17 witness: the write of the unit list starts with the units of both
\* dispatched workers in the list, one token each.
BarrierWitness ==
    /\ wrPc["parts"] = "write"
    /\ Cardinality(spawned) = 2
    /\ Len(contextParts) = 2
    /\ tokensAdded = 2
    /\ SumParts(contextParts) = 2

\* workers that have executed totalUpdatableTokens += numTokens
PastUpdatable ==
    {w \in spawned : \/ wpc[w] = "addAdded" /\ Kind(w) = "tree"
                     \/ wpc[w] \in {"check", "exit", "append", "done"}
                          /\ Kind(w) \in {"file", "tree", "url"}}

\* C18: Updatable accounting by kind. totalUpdatableTokens is its initial value
\* plus the counts of the File, DirectoryTree and URL workers that have executed
\* their increment, which they do holding the mutex; the value written is the
\* initial value plus the counts of all units of these kinds.
UpdatableAccounting ==
    /\ mainPc # "getPlanState" =>
          totalUpdatableTokens =
             startPlanState.ContextUpdatableTokens + SumTokens(PastUpdatable)
    /\ \A w \in spawned :
          wpc[w] = "addUpdatable" =>
             totalTokensMutex = w /\ Kind(w) \in {"file", "tree", "url"}
    /\ wrPc["state"] \in {"call", "send", "done"} =>
          planState.ContextUpdatableTokens =
             startPlanState.ContextUpdatableTokens + SumTokens(UpdatableWorkers)
    /\ storedPlanState # startPlanState =>
          storedPlanState.ContextUpdatableTokens =
             startPlanState.ContextUpdatableTokens + SumTokens(UpdatableWorkers)

\* C18 witness: a note and a URL, one token each, were loaded; the updatable
\* sub-total written grew by the URL's token only.
UpdatableAccountingWitness ==
    /\ outcome = "returned"
    /\ Cardinality(spawned) = 2
    /\ \E w \in spawned : Kind(w) = "note" /\ numTokens[w] = 1
    /\ \E w \in spawned : Kind(w) = "url" /\ numTokens[w] = 1
    /\ storedPlanState.ContextTokens = startPlanState.ContextTokens + 2
    /\ storedPlanState.ContextUpdatableTokens =
          startPlanState.ContextUpdatableTokens + 1

\* the errors of the producers: a listing command failed, filepath.Rel failed,
\* the walk met an I/O error
EnumerationErrors == {"cmd", "rel", "walk"}

\* C11: An enumeration error discards everything. A call that returns an error
\* returns no path set; the error of an enumeration is the one a producer sent;
\* and a call that returns a path set had no producer with an error.
EnumerationErrorNoPaths ==
    /\ (cpc = "returned" /\ ret.err # "nil") => ret.isNil /\ ret.paths = {}
    /\ (cpc = "returned" /\ ret.err \in EnumerationErrors)
          => \E p \in Producers : ppc[p] = "done" /\ sendVal[p] = ret.err
    /\ ReturnedPaths => \A p \in Producers : sendVal[p] = "nil"

\* C11 witness: a listing command failed after paths and directories had been
\* accumulated by the other producers; the call returned that error.
EnumerationErrorWitness ==
    /\ cpc = "returned"
    /\ ret.err = "cmd"
    /\ ret.isNil
    /\ paths # {}
    /\ dirs # {}

\* a producer that can never take another step once GetPaths has returned: it
\* stands at its send on errCh, which nobody receives from any more, or it waits
\* for mu, held by a producer that stands at its send
BlockedForever(p) ==
    \/ ppc[p] = "send"
    \/ ppc[p] = "lock" /\ mu \in Producers /\ ppc[mu] = "send"

\* C19: Concurrency scoped to the call. Once GetPaths has returned no producer
\* goroutine is blocked forever.
NoLeakedProducers ==
    cpc = "returned" => \A p \in Producers : ~BlockedForever(p)

\* producer p stands at a write of ignoredPaths: line 242 or 254 for the walk,
\* line 180 or 216 for a listing producer
AtIgnoredWrite(p) ==
    IF p = "walk"
    THEN /\ ppc[p] = "walk"
         /\ WalkEntries[idx[p]].isDir \/ ~isGitRepo
         /\ RelPath # "err" /\ Ignored(RelPath)
    ELSE /\ ppc[p] = "loop"
         /\ RelFile(p) # "err" /\ Ignored(RelFile(p))

\* producer p stands at a write of paths: line 259 for the walk, line 184 or 220
\* for a listing producer
AtPathsWrite(p) ==
    IF p = "walk"
    THEN /\ ppc[p] = "walk"
         /\ ~WalkEntries[idx[p]].isDir /\ ~isGitRepo
         /\ RelPath # "err" /\ ~Ignored(RelPath)
    ELSE /\ ppc[p] = "loop"
         /\ RelFile(p) # "err" /\ ~Ignored(RelFile(p))

\* no two producers stand at a write of ignoredPaths unless both hold mu
IgnoredWritesExclusive ==
    \A p, q \in Producers :
        (p # q /\ AtIgnoredWrite(p) /\ AtIgnoredWrite(q)) => (mu = p /\ mu = q)

\* no two producers stand at a write of paths unless both hold mu
PathsWritesExclusive ==
    \A p, q \in Producers :
        (p # q /\ AtPathsWrite(p) /\ AtPathsWrite(q)) => (mu = p /\ mu = q)

\* dirs, written by the walk alone, is read by the caller (line 280) only after
\* the walk has sent and returned
DirsReadAfterWalk == cpc = "merge" => ppc["walk"] = "done"

\* C21: Data-race freedom. While the producers of GetPaths run, no two of them
\* access the same shared map at the same time unless both hold the mutex:
\* ignoredPaths is never written by one producer while another writes it, paths
\* neither, and the caller reads dirs only after the walk has finished.
DataRaceFreedom ==
    /\ IgnoredWritesExclusive
    /\ PathsWritesExclusive
    /\ DirsReadAfterWalk

\* the process was stopped by the runtime during GetPaths
ProcessStopped == cpc = "fatal"

\* Apart from the return, the call can only end with the process: under fair
\* scheduling the collector never waits forever for a send.
CollectorNeverStuck == <>(cpc = "returned" \/ ProcessStopped)

\* C22: GetPaths always returns. With commands and a walk that terminate and
\* fair scheduling, the collector's receives complete and the call eventually
\* returns an error or the merged path set.
GetPathsReturns == <>(cpc = "returned")


(***************************************************************************)
(* Properties of GetBaseDirForFilePaths.                                   *)
(***************************************************************************)
\* the greatest of a set of numbers, 0 for the empty set
MaxOf(S) == IF S = {} THEN 0 ELSE CHOOSE m \in S : \A x \in S : x <= m

RECURSIVE ClimbCount(_)
\* how many times a path, as written, starts with "../" over again, a final ".."
\* counting too
ClimbCount(path) ==
    IF path = <<".", ".">> THEN 1
    ELSE IF Len(path) >= 3 /\ SubSeq(path, 1, 3) = <<".", ".", "/">>
         THEN 1 + ClimbCount(SubSeq(path, 4, Len(path)))
         ELSE 0

\* the most a path of the list climbs, whatever the order of the list
MostClimbed == MaxOf({ClimbCount(filePaths[i]) : i \in 1..Len(filePaths)})

\* the directory k levels above d: d without its last k segments, / at most;
\* above an unset directory filepath.Dir gives "."
LevelsUp(d, k) ==
    IF k = 0 THEN d
    ELSE IF d.abs
         THEN [d EXCEPT !.path = SubSeq(d.path, 1, MaxOf({0, Len(d.path) - k}))]
         ELSE [abs |-> FALSE, path |-> <<".">>]

\* C12: Base-directory resolution. The result is ProjectRoot climbed k levels,
\* k the most leading ".." segments of any path: a function of the set of
\* paths, not of their order; it is ProjectRoot when no path starts with "..".
BaseDirResolution ==
    gbPc = "returned" =>
        /\ gbRet = LevelsUp(ProjectRoot, MostClimbed)
        /\ dirsUp = MostClimbed
        /\ MostClimbed = 0 => gbRet = ProjectRoot

\* C12 witness: FindOrCreatePlandex made the marker directory and set
\* ProjectRoot to /g/p/w; for "../a/b", "../../c", "d/e" the result is /g, two
\* levels up.
BaseDirResolutionWitness ==
    /\ gbPc = "returned"
    /\ filePaths = << <<".", ".", "/", "a", "/", "b">>,
                      <<".", ".", "/", ".", ".", "/", "c">>,
                      <<"d", "/", "e">> >>
    /\ ProjectRoot = Cwd
    /\ focRet.created
    /\ dirsUp = 2
    /\ gbRet = [abs |-> TRUE, path |-> <<"g">>]

(***************************************************************************)
(* Properties of the project searches.                                     *)
(***************************************************************************)
\* GetChildProjectIdsWithPaths returned a list
ReturnedChildren == childPc = "returned" /\ childRet.err = "nil"

\* the list holds what was accumulated when the deadline fired and at most one
\* pair more
KeepsDeadlinePairs(ids) ==
    /\ IsPrefix(idsAtDeadline, ids)
    /\ Len(ids) <= Len(idsAtDeadline) + 1

\* C13, as stated: after the deadline fired during the walk, the call returns
\* exactly the pairs accumulated before the deadline, and no error.
SoftDeadlineAsStated ==
    (childPc = "returned" /\ ctxDone) =>
        /\ childRet.err = "nil"
        /\ childRet.ids = idsAtDeadline

\* C13: Soft deadline. When the walk function finds the deadline fired at its
\* check, the call returns what is accumulated at that check and no error: the
\* pairs accumulated when the deadline fired and at most the pair of the directory
\* then under examination. A list returned after the deadline has lost no pair,
\* and an error result after the deadline is the error of an entry or of a
\* settings file, never the timeout.
SoftDeadline ==
    /\ (childPc = "returned" /\ childRet.via = "timeout") =>
          /\ ctxDone
          /\ childRet.err = "nil"
          /\ childRet.ids = childProjectIds
    /\ (ReturnedChildren /\ ctxDone) => KeepsDeadlinePairs(childRet.ids)
    /\ (childPc = "returned" /\ childRet.err = "walk") =>
          entryErr[cIdx] \in {"lstatIO", "readdirIO"}
    /\ (childPc = "returned" /\ childRet.err = "read") =>
          SettingsFound(ChildEntries[cIdx].key)

\* C13 witness: the deadline was found fired at b; the pair of a, accumulated
\* before, is returned without an error.
SoftDeadlineWitness ==
    /\ childPc = "returned"
    /\ childRet.via = "timeout"
    /\ ChildEntries[cIdx].key = "b"
    /\ dirStatus["b"] = "project"
    /\ childRet.ids = <<Pair("a")>>
    /\ idsAtDeadline = <<Pair("a")>>

\* C14: Permission errors are skipped. The walk function never ends the walk at
\* an entry with a permission error, and another walk error is returned with no
\* list.
PermissionErrorsSkipped ==
    /\ childPc \in {"returned", "panic"} =>
          (cIdx <= Len(ChildEntries) => entryErr[cIdx] \notin {"lstatPerm", "readdirPerm"})
    /\ (childPc = "returned" /\ childRet.via = "error") => childRet.ids = "nil"

\* the pairs name directories that hold the marker directory with the settings
\* file in it
AllProjects(ids) == \A i \in 1..Len(ids) : dirStatus[ids[i].dir] = "project"

\* C20: Every pair the searches return names a directory with marker directory
\* and settings file.
ProjectsHaveMarkerAndSettings ==
    /\ ReturnedChildren => AllProjects(childRet.ids)
    /\ (parentPc = "returned" /\ parentRet.err = "nil") => AllProjects(parentRet.ids)

====
